---- MODULE Spec2Model ----
(***************************************************************************)
(* Model of the adaptive quiz: the server handlers getNextQuestion and     *)
(* submitAnswer (server/routes.ts) and the GameEngine view-state machine   *)
(* (client page component).                                                *)
(*                                                                         *)
(* Scores are real numbers in [0,1] in the program; here a score is the    *)
(* integer k standing for k / Scale, so 1.0 is Scale and 0.0 is 0.         *)
(* An optional value (a row that may be missing, a nullable column) is a   *)
(* set with at most one element: {} is undefined / null.                   *)
(***************************************************************************)
EXTENDS Integers, Sequences, FiniteSets, TLC

\* ------------------------------------------------------------------ bounds
Scale == 100          \* resolution of scores: the score k is k / Scale
MaxQ == 3             \* questions in the sample database of Spec
MaxSel == 2           \* questions in the free tables of SpecSelect
MaxEvents == 2        \* answered submissions per run of Spec
MaxSubmits == 6       \* submitAnswer calls of one mounted client session
MaxInflight == 2      \* submitAnswer calls of the client awaiting a response

VARIABLES
    probe,            \* inputs and result of the target-difficulty computation
    questions,        \* questions table: id -> row
    mastery,          \* mastery table: <<userId, topicId>> -> score
    events,           \* learning_events table, in insertion order
    req,              \* the request last handled by the server
    resp,             \* its response
    calls,            \* the submitAnswer requests running concurrently
    writer,           \* per mastery key, the call whose updateMastery ran last
    \* GameEngine component state (useState)
    phase, selectedAnswer, result, score, streak, questionsAnswered, gameProgress,
    \* useQuestion: the loaded question (0: none yet) and isFetching
    question, fetching,
    thenPending,      \* a refetch().then(...) of handleContinue is waiting
    \* useSubmitAnswer: the calls in flight, the call whose callbacks are
    \* attached, and the number of calls made
    inflight, observed, submitCount,
    \* what the session has done, for the properties
    lastEvent,        \* the last event handled
    continues,        \* runs of handleContinue
    gameTicks,        \* ticks since the game phase was last entered
    refetchCalls,     \* calls of refetch()
    sentFor,          \* submitAnswer calls for the question now presented
    answeredFor       \* increments of questionsAnswered for it

serverVars == <<questions, mastery, events, req, resp, calls, writer>>
componentVars ==
    <<phase, selectedAnswer, result, score, streak, questionsAnswered, gameProgress>>
queryVars == <<question, fetching, thenPending>>
mutationVars == <<inflight, observed, submitCount>>
historyVars == <<lastEvent, continues, gameTicks, refetchCalls, sentFor, answeredFor>>
clientVars == <<componentVars, queryVars, mutationVars, historyVars>>
vars == <<probe, serverVars, clientVars>>

\* ------------------------------------------------------------ server data
\* topics that own questions, and the topic ids a request may name
QuestionTopics == {1, 2}
Topics == QuestionTopics \cup {3}
Difficulties == 1..5
\* req.session.userId: 0 stands for a request without a session (falsy)
SessionUserIds == {0, 1}
Students == SessionUserIds \ {0}
Answers == {"A", "a", "B"}
TimesTaken == {4}
Scores == 0..Scale
\* stored scores the runs start from: every fifth, and 0.99
InitScores == {(k * Scale) \div 5 : k \in 0..5} \cup {(99 * Scale) \div 100}

Some(x) == {x}
None == {}
The(opt) == CHOOSE x \in opt : TRUE

\* -------------------------------------------------- storage (collaborator)
getMastery(m, userId, topicId) ==
    IF <<userId, topicId>> \in DOMAIN m
    THEN Some([score |-> m[<<userId, topicId>>]])
    ELSE None

updateMastery(m, userId, topicId, newScore) ==
    [k \in (DOMAIN m) \cup {<<userId, topicId>>} |->
        IF k = <<userId, topicId>> THEN newScore ELSE m[k]]

logLearningEvent(ev, userId, questionId, isCorrect, timeTaken) ==
    Append(ev, [userId |-> userId, questionId |-> questionId,
                correct |-> isCorrect, timeTaken |-> timeTaken])

getQuestion(qs, questionId) ==
    IF questionId \in DOMAIN qs THEN Some(qs[questionId]) ELSE None

RECURSIVE IdsFrom(_, _, _)
IdsFrom(qs, topicId, i) ==
    IF i \notin DOMAIN qs THEN <<>>
    ELSE (IF qs[i].topicId = topicId THEN <<qs[i]>> ELSE <<>>)
         \o IdsFrom(qs, topicId, i + 1)

getQuestionsByTopic(qs, topicId) == IdsFrom(qs, topicId, 1)

\* --------------------------------------------------------- getNextQuestion
\* topicMastery?.score || 0
currentScoreOf(topicMastery) ==
    IF topicMastery = None THEN 0 ELSE The(topicMastery).score

Max(a, b) == IF a >= b THEN a ELSE b
Min(a, b) == IF a <= b THEN a ELSE b

\* a faulty variant: the clamp to 1..5 is left out
targetDifficultyUnclamped(currentScore) == ((currentScore * 5) \div Scale) + 1

\* Math.max(1, Math.min(5, Math.floor(currentScore * 5) + 1))
targetDifficulty(currentScore) ==
    Max(1, Min(5, ((currentScore * 5) \div Scale) + 1))

\* a faulty variant: the filter keeps the questions at or below the target
candidateQuestionsAtMost(allQuestions, target) ==
    LET f == SelectSeq(allQuestions, LAMBDA q : q.difficulty <= target)
    IN  IF Len(f) = 0 THEN allQuestions ELSE f

\* allQuestions.filter(q => q.difficulty === targetDifficulty), else all
candidateQuestions(allQuestions, target) ==
    LET f == SelectSeq(allQuestions, LAMBDA q : q.difficulty = target)
    IN  IF Len(f) = 0 THEN allQuestions ELSE f

NoBody == [kind |-> "none"]

\* a faulty variant: an empty topic is answered with an empty 200 instead of 404
nextQuestionResponsesNo404(qs, m, userId, topicId) ==
    LET allQuestions == getQuestionsByTopic(qs, topicId)
    IN  IF userId = 0 THEN {[status |-> 401, body |-> NoBody]}
        ELSE IF Len(allQuestions) = 0 THEN {[status |-> 200, body |-> NoBody]}
        ELSE { [status |-> 200,
                body |-> [kind |-> "question", question |-> allQuestions[idx]]] :
                 idx \in 1..Len(allQuestions) }

\* the responses the handler can give; idx is
\* floor(Math.random() * candidateQuestions.length) + 1, and indexing an
\* empty array gives undefined, sent as a 200 without a body
nextQuestionResponses(qs, m, userId, topicId) ==
    LET allQuestions == getQuestionsByTopic(qs, topicId)
        target == targetDifficulty(currentScoreOf(getMastery(m, userId, topicId)))
        cands == candidateQuestions(allQuestions, target)
    IN  IF userId = 0 THEN {[status |-> 401, body |-> NoBody]}
        ELSE IF Len(allQuestions) = 0 THEN {[status |-> 404, body |-> NoBody]}
        ELSE IF Len(cands) = 0 THEN {[status |-> 200, body |-> NoBody]}
        ELSE { [status |-> 200,
                body |-> [kind |-> "question", question |-> cands[idx]]] :
                 idx \in 1..Len(cands) }

GetNextQuestion ==
    \E userId \in SessionUserIds, topicId \in Topics :
        /\ req' = [op |-> "getNextQuestion", userId |-> userId, topicId |-> topicId]
        /\ resp' \in nextQuestionResponses(questions, mastery, userId, topicId)
        /\ UNCHANGED <<probe, questions, mastery, events, calls, writer, clientVars>>

\* ------------------------------------------------------------ submitAnswer
QuestionIds == 1..(MaxQ + 1)      \* the last id names no row

\* question.correctAnswer === answer
isCorrectOf(q, answer) == q.correctAnswer = answer

\* a faulty variant: the new score blends with the stored one instead of replacing it
submitMasteryBlend(m, userId, q, isCorrect) ==
    LET old == currentScoreOf(getMastery(m, userId, q.topicId))
    IN  updateMastery(m, userId, q.topicId,
                      (old + (IF isCorrect THEN Scale ELSE 0)) \div 2)

\* storage.updateMastery(userId, question.topicId, isCorrect ? 1.0 : 0.0)
\* a faulty variant: the write keeps the higher of the stored and the new score
submitMasteryKeepHigher(m, userId, q, isCorrect) ==
    LET new == IF isCorrect THEN Scale ELSE 0
        old == IF <<userId, q.topicId>> \in DOMAIN m THEN m[<<userId, q.topicId>>] ELSE 0
    IN  updateMastery(m, userId, q.topicId, IF old > new THEN old ELSE new)

submitMastery(m, userId, q, isCorrect) ==
    updateMastery(m, userId, q.topicId, IF isCorrect THEN Scale ELSE 0)

\* a faulty variant: a submission equal to the last logged one is not logged again
submitEventsDedup(ev, userId, questionId, isCorrect, timeTaken) ==
    LET new == logLearningEvent(ev, userId, questionId, isCorrect, timeTaken)
    IN  IF Len(ev) > 0 /\ ev[Len(ev)] = new[Len(new)] THEN ev ELSE new

\* storage.logLearningEvent(userId, questionId, isCorrect, timeTaken)
submitEvents(ev, userId, questionId, isCorrect, timeTaken) ==
    logLearningEvent(ev, userId, questionId, isCorrect, timeTaken)

\* a faulty variant: the comparison ignores case
outcomeIgnoringCase(q, answer, masteryRecord) ==
    LET lower(s) == IF s = "A" THEN "a" ELSE s
        isCorrect == lower(q.correctAnswer) = lower(answer)
    IN  [kind |-> "outcome",
         correct |-> isCorrect,
         correctAnswer |-> q.correctAnswer,
         coinsEarned |-> IF isCorrect THEN 10 ELSE 0,
         newMastery |-> currentScoreOf(masteryRecord),
         feedback |-> IF isCorrect THEN "Great job!"
                      ELSE IF q.explanation \in {None, Some("")}
                           THEN "Keep trying!"
                           ELSE The(q.explanation)]

\* a faulty variant: newMastery repeats the score this call wrote
outcomeOwnMastery(q, answer, masteryRecord) ==
    LET isCorrect == isCorrectOf(q, answer)
    IN  [kind |-> "outcome",
         correct |-> isCorrect,
         correctAnswer |-> q.correctAnswer,
         coinsEarned |-> IF isCorrect THEN 10 ELSE 0,
         newMastery |-> IF isCorrect THEN Scale ELSE 0,
         feedback |-> IF isCorrect THEN "Great job!"
                      ELSE IF q.explanation \in {None, Some("")}
                           THEN "Keep trying!"
                           ELSE The(q.explanation)]

\* the JSON body of the 200 response; x || y takes y when x is null or ""
outcome(q, answer, masteryRecord) ==
    LET isCorrect == isCorrectOf(q, answer)
    IN  [kind |-> "outcome",
         correct |-> isCorrect,
         correctAnswer |-> q.correctAnswer,
         coinsEarned |-> IF isCorrect THEN 10 ELSE 0,
         newMastery |-> currentScoreOf(masteryRecord),
         feedback |-> IF isCorrect THEN "Great job!"
                      ELSE IF q.explanation \in {None, Some("")}
                           THEN "Keep trying!"
                           ELSE The(q.explanation)]

\* a faulty variant: the check of the session is left out
submitStatusNoSession(userId, found) == IF found = None THEN 404 ELSE 200

\* if (!req.session.userId) return 401; if (!question) return 404
submitStatus(userId, found) ==
    IF userId = 0 THEN 401 ELSE IF found = None THEN 404 ELSE 200

SubmitAnswer ==
    \E userId \in SessionUserIds, questionId \in QuestionIds,
       answer \in Answers, timeTaken \in TimesTaken :
        LET r == [op |-> "submitAnswer", userId |-> userId, questionId |-> questionId,
                  answer |-> answer, timeTaken |-> timeTaken]
            found == getQuestion(questions, questionId)
            status == submitStatus(userId, found)
        IN  /\ Len(events) < MaxEvents
            /\ req' = r
            /\ IF status # 200
               THEN /\ resp' = [status |-> status, body |-> NoBody]
                    /\ UNCHANGED <<mastery, events>>
               ELSE LET q == The(found)
                        isCorrect == isCorrectOf(q, answer)
                    IN  /\ events' = submitEvents(events, userId, questionId,
                                                  isCorrect, timeTaken)
                        /\ mastery' = submitMastery(mastery, userId, q, isCorrect)
                        /\ resp' = [status |-> 200,
                                    body |-> outcome(q, answer,
                                        getMastery(mastery', userId, q.topicId))]
            /\ UNCHANGED <<probe, questions, calls, writer, clientVars>>

\* ------------------------------------ submitAnswer, one await at a time
\* the requests handled concurrently: each runs the handler once, and the
\* handlers interleave at their awaits
Calls == {1, 2}

\* a request received and not yet handled
Received(userId, questionId, answer, timeTaken) ==
    [pc |-> "received", userId |-> userId, questionId |-> questionId,
     answer |-> answer, timeTaken |-> timeTaken,
     found |-> None,      \* question, once storage.getQuestion has returned
     eventIdx |-> 0,      \* position of the event this call has logged
     readFrom |-> 0,      \* the call whose write its getMastery has read
     resp |-> [status |-> 0, body |-> NoBody]]

NoCalls == [i \in Calls |-> [pc |-> "idle"]]

\* the handler starts: the session is checked and storage.getQuestion called
CallStart(i) ==
    /\ calls[i].pc = "received"
    /\ calls' = [calls EXCEPT ![i] =
          IF calls[i].userId = 0
          THEN [@ EXCEPT !.pc = "done", !.resp = [status |-> 401, body |-> NoBody]]
          ELSE [@ EXCEPT !.pc = "getQuestion"]]
    /\ UNCHANGED <<probe, questions, mastery, events, req, resp, writer, clientVars>>

\* await storage.getQuestion(questionId) returns; 404, or isCorrect is
\* computed and storage.logLearningEvent called
CallGetQuestion(i) ==
    /\ calls[i].pc = "getQuestion"
    /\ LET found == getQuestion(questions, calls[i].questionId)
       IN  calls' = [calls EXCEPT ![i] =
             IF found = None
             THEN [@ EXCEPT !.pc = "done", !.resp = [status |-> 404, body |-> NoBody]]
             ELSE [@ EXCEPT !.pc = "logLearningEvent", !.found = found]]
    /\ UNCHANGED <<probe, questions, mastery, events, req, resp, writer, clientVars>>

\* await storage.logLearningEvent(...) returns: the event is in the log
CallLogLearningEvent(i) ==
    /\ calls[i].pc = "logLearningEvent"
    /\ LET c == calls[i]
           q == The(c.found)
       IN  events' = submitEvents(events, c.userId, c.questionId,
                                  isCorrectOf(q, c.answer), c.timeTaken)
    /\ calls' = [calls EXCEPT ![i].pc = "updateMastery", ![i].eventIdx = Len(events')]
    /\ UNCHANGED <<probe, questions, mastery, req, resp, writer, clientVars>>

\* await storage.updateMastery(...) returns: the score is stored
CallUpdateMastery(i) ==
    /\ calls[i].pc = "updateMastery"
    /\ LET c == calls[i]
           q == The(c.found)
           key == <<c.userId, q.topicId>>
       IN  /\ mastery' = submitMastery(mastery, c.userId, q, isCorrectOf(q, c.answer))
           /\ writer' = [k \in (DOMAIN writer) \cup {key} |->
                            IF k = key THEN i ELSE writer[k]]
    /\ calls' = [calls EXCEPT ![i].pc = "getMastery"]
    /\ UNCHANGED <<probe, questions, events, req, resp, clientVars>>

\* await storage.getMastery(...) returns and the outcome is sent
CallGetMastery(i) ==
    /\ calls[i].pc = "getMastery"
    /\ LET c == calls[i]
           q == The(c.found)
       IN  calls' = [calls EXCEPT ![i] =
             [@ EXCEPT !.pc = "done",
                       !.readFrom = writer[<<c.userId, q.topicId>>],
                       !.resp = [status |-> 200,
                                 body |-> outcome(q, c.answer,
                                     getMastery(mastery, c.userId, q.topicId))]]]
    /\ UNCHANGED <<probe, questions, mastery, events, req, resp, writer, clientVars>>

\* ------------------------------------------------- GameEngine (the client)
\* the options of a question: its correct answer, or one of its distractors
Options == {"correctAnswer", "distractor"}

\* useState initial values, and the first fetch of useQuestion under way
ClientMounted ==
    /\ phase = "question"
    /\ selectedAnswer = None
    /\ result = None
    /\ score = 0
    /\ streak = 0
    /\ questionsAnswered = 0
    /\ gameProgress = 0
    /\ question = 0
    /\ fetching = TRUE
    /\ thenPending = FALSE
    /\ inflight = {}
    /\ observed = 0
    /\ submitCount = 0
    /\ lastEvent = "mount"
    /\ continues = 0
    /\ gameTicks = 0
    /\ refetchCalls = 0
    /\ sentFor = 0
    /\ answeredFor = 0

\* if (isLoading || isFetching || !question) return <spinner>
Spinner == fetching \/ question = 0

\* the option buttons are rendered in question and result, disabled by result
OptionButtonsEnabled ==
    ~Spinner /\ phase \in {"question", "result"} /\ result = None

\* a faulty variant: the result panel is rendered in every phase
ContinueButtonAlwaysShown == ~Spinner

\* the result panel with the continue button
ContinueButtonShown == ~Spinner /\ phase = "result" /\ result # None

\* if (result || phase !== "question") return
handleAnswerGuard == result = None /\ phase = "question"

\* a faulty variant: the interstitial comes before every third question
continueToGameBefore(answered) == (answered + 1) % 3 = 0 /\ answered > 0

\* questionsAnswered % 3 === 0 && questionsAnswered > 0
continueToGame(answered) == answered % 3 = 0 /\ answered > 0

\* a faulty variant: an incorrect answer costs the points too
scoreAfterOrZero(prev, correct, streakAtClick) ==
    IF correct THEN prev + 10 + (streakAtClick * 2) ELSE 0

\* setScore(prev => prev + 10 + (streak * 2)) on a correct answer
scoreAfter(prev, correct, streakAtClick) ==
    IF correct THEN prev + 10 + (streakAtClick * 2) ELSE prev

\* setStreak(prev => prev + 1) on a correct answer, setStreak(0) otherwise
streakAfter(prev, correct) == IF correct THEN prev + 1 ELSE 0

GAME_DURATION == 5000
\* the period of the interval: GAME_DURATION / 50 milliseconds
TickMs == GAME_DURATION \div 50

\* a faulty variant: the game ends on the tick that reaches 100
gameOverEarly(prev) == prev + 2 >= 100

\* a faulty variant: the updater compares with > in place of >=
gameOverLate(prev) == prev > 100

\* if (prev >= 100) in the interval's updater
gameOver(prev) == prev >= 100

\* a click on an option button, or an attempt at one: handleAnswer(option)
AnswerClick ==
    \E option \in Options :
        /\ submitCount < MaxSubmits
        /\ Cardinality(inflight) < MaxInflight
        /\ lastEvent' = "answerClick"
        /\ IF OptionButtonsEnabled /\ handleAnswerGuard
           THEN /\ selectedAnswer' = Some(option)
                /\ submitCount' = submitCount + 1
                /\ observed' = submitCount'
                /\ inflight' = inflight \cup
                      {[id |-> submitCount', question |-> question,
                        answer |-> option, streak |-> streak]}
                /\ sentFor' = sentFor + 1
                /\ UNCHANGED <<phase, result, score, streak, questionsAnswered,
                               gameProgress, queryVars, continues, gameTicks,
                               refetchCalls, answeredFor>>
           ELSE UNCHANGED <<componentVars, queryVars, mutationVars, continues,
                            gameTicks, refetchCalls, sentFor, answeredFor>>
        /\ UNCHANGED <<probe, serverVars>>

\* the response of a submitAnswer call arrives; the onSuccess given to
\* mutate runs for the call the observer is attached to, the latest one
SubmitResponse ==
    \E call \in inflight :
        LET correct == call.answer = "correctAnswer"
        IN  /\ inflight' = inflight \ {call}
            /\ IF call.id = observed
               THEN /\ lastEvent' = "submitSuccess"
                    /\ result' = Some([correct |-> correct,
                                       coinsEarned |-> IF correct THEN 10 ELSE 0])
                    /\ score' = scoreAfter(score, correct, call.streak)
                    /\ streak' = streakAfter(streak, correct)
                    /\ questionsAnswered' = questionsAnswered + 1
                    /\ phase' = "result"
                    /\ answeredFor' = answeredFor + 1
                    /\ UNCHANGED <<selectedAnswer, gameProgress>>
               ELSE /\ lastEvent' = "submitDropped"
                    /\ UNCHANGED <<componentVars, answeredFor>>
            /\ UNCHANGED <<probe, serverVars, queryVars, observed, submitCount,
                           continues, gameTicks, refetchCalls, sentFor>>

\* a click on the continue button, or an attempt at one: handleContinue()
ContinueClick ==
    /\ lastEvent' = "continueClick"
    /\ IF ContinueButtonShown
       THEN /\ continues' = continues + 1
            /\ result' = None
            /\ IF continueToGame(questionsAnswered)
               THEN /\ phase' = "game"
                    /\ gameProgress' = 0
                    /\ gameTicks' = 0
                    /\ UNCHANGED <<queryVars, refetchCalls>>
               ELSE /\ phase' = "loading"
                    /\ fetching' = TRUE
                    /\ thenPending' = TRUE
                    /\ refetchCalls' = refetchCalls + 1
                    /\ UNCHANGED <<gameProgress, gameTicks, question>>
            /\ UNCHANGED <<selectedAnswer, score, streak, questionsAnswered,
                           sentFor, answeredFor>>
       ELSE UNCHANGED <<componentVars, queryVars, continues, gameTicks,
                        refetchCalls, sentFor, answeredFor>>
    /\ UNCHANGED <<probe, serverVars, mutationVars>>

\* the interval of the game phase fires; leaving the phase clears it, and
\* entering question with a question loaded resets the per-question state
GameTick ==
    /\ phase = "game"
    /\ lastEvent' = "tick"
    /\ gameTicks' = gameTicks + 1
    /\ IF gameOver(gameProgress)
       THEN /\ phase' = "question"
            /\ gameProgress' = 0
            /\ fetching' = TRUE
            /\ refetchCalls' = refetchCalls + 1
            /\ selectedAnswer' = None
            /\ result' = None
            /\ sentFor' = 0
            /\ answeredFor' = 0
            /\ UNCHANGED <<question, thenPending>>
       ELSE /\ gameProgress' = gameProgress + 2
            /\ UNCHANGED <<phase, selectedAnswer, result, queryVars,
                           refetchCalls, sentFor, answeredFor>>
    /\ UNCHANGED <<probe, serverVars, mutationVars, score, streak,
                   questionsAnswered, continues>>

\* a faulty variant: the then() of handleContinue is missing
phaseAfterFetchKept(ph, pending) == ph

\* refetch().then(() => setPhase("question")): the phase once the fetch has
\* settled, given whether a then() of handleContinue waits for it
phaseAfterFetch(ph, pending) == IF pending THEN "question" ELSE ph

\* the fetch of the next question settles: a new question is loaded, the
\* then() of handleContinue sets the phase, and the effect on [question,
\* phase] resets the per-question state when the phase is question
FetchSettled ==
    /\ fetching
    /\ lastEvent' = "fetchSettled"
    /\ fetching' = FALSE
    /\ question' = question + 1
    /\ thenPending' = FALSE
    /\ phase' = phaseAfterFetch(phase, thenPending)
    /\ IF phase' = "question"
       THEN selectedAnswer' = None /\ result' = None /\ sentFor' = 0 /\ answeredFor' = 0
       ELSE UNCHANGED <<selectedAnswer, result, sentFor, answeredFor>>
    /\ UNCHANGED <<probe, serverVars, mutationVars, score, streak,
                   questionsAnswered, gameProgress, continues, gameTicks, refetchCalls>>

\* the fetch of the next question fails: isFetching falls, the question
\* loaded before stays, and the promise of refetch() is rejected, so that a
\* then() of handleContinue never runs (there is no catch)
FetchFailed ==
    /\ fetching
    /\ lastEvent' = "fetchFailed"
    /\ fetching' = FALSE
    /\ thenPending' = FALSE
    /\ UNCHANGED <<probe, serverVars, componentVars, question, mutationVars,
                   continues, gameTicks, refetchCalls, sentFor, answeredFor>>

\* ------------------------------------------------------------------- data
\* the text columns of row i; explanation is nullable
SampleContent(i) ==
    [correctAnswer |-> IF i % 2 = 1 THEN "A" ELSE "B",
     explanation |-> IF i % 3 = 1 THEN Some("E")
                     ELSE IF i % 3 = 2 THEN None ELSE Some("")]

Row(i, topicId, difficulty) ==
    [id |-> i, topicId |-> topicId, difficulty |-> difficulty,
     correctAnswer |-> SampleContent(i).correctAnswer,
     explanation |-> SampleContent(i).explanation]

\* a database of MaxQ questions over the topics that own questions
SampleQuestions ==
    [i \in 1..MaxQ |-> Row(i, 1 + (i % 2), 1 + ((i * 2) % 5))]

\* every table of MaxSel questions
FreeTables ==
    { [i \in 1..MaxSel |-> Row(i, td[i][1], td[i][2])] :
        td \in [1..MaxSel -> QuestionTopics \X Difficulties] }

\* every mastery table of the students with the given stored scores
MasteryTables(scores) ==
    UNION { [keys -> scores] : keys \in SUBSET (Students \X QuestionTopics) }

NoProbe == [m1 |-> None, m2 |-> None, d1 |-> 0, d2 |-> 0, done |-> FALSE]
NoReq == [op |-> "none"]
NoResp == [status |-> 0, body |-> NoBody]

\* ---------------------------------------------------- the sequential server
Init ==
    /\ probe = NoProbe
    /\ questions = SampleQuestions
    /\ mastery \in MasteryTables({0, (2 * Scale) \div 5, Scale})
    /\ events = <<>>
    /\ req = NoReq
    /\ resp = NoResp
    /\ calls = NoCalls
    /\ writer = <<>>
    /\ ClientMounted

Next == SubmitAnswer \/ GetNextQuestion

Spec == Init /\ [][Next]_vars

\* ------------------------------------- getNextQuestion over every database
InitSelect ==
    /\ probe = NoProbe
    /\ questions \in FreeTables
    /\ mastery \in MasteryTables(InitScores)
    /\ events = <<>>
    /\ req = NoReq
    /\ resp = NoResp
    /\ calls = NoCalls
    /\ writer = <<>>
    /\ ClientMounted

NextSelect == GetNextQuestion

SpecSelect == InitSelect /\ [][NextSelect]_vars

\* --------------------------------------------- the target difficulty alone
MasteryRecords == {None} \cup { Some([score |-> k]) : k \in Scores }

InitTarget ==
    /\ probe \in [m1 : MasteryRecords, m2 : MasteryRecords,
                   d1 : {0}, d2 : {0}, done : {FALSE}]
    /\ questions = SampleQuestions
    /\ mastery = <<>>
    /\ events = <<>>
    /\ req = NoReq
    /\ resp = NoResp
    /\ calls = NoCalls
    /\ writer = <<>>
    /\ ClientMounted

ComputeTarget ==
    /\ ~probe.done
    /\ probe' = [probe EXCEPT !.d1 = targetDifficulty(currentScoreOf(probe.m1)),
                               !.d2 = targetDifficulty(currentScoreOf(probe.m2)),
                               !.done = TRUE]
    /\ UNCHANGED <<serverVars, clientVars>>

NextTarget == ComputeTarget

SpecTarget == InitTarget /\ [][NextTarget]_vars

\* ------------------------------- submitAnswer requests running concurrently
InitConc ==
    /\ probe = NoProbe
    /\ questions = SampleQuestions
    /\ mastery = <<>>
    /\ events = <<>>
    /\ req = NoReq
    /\ resp = NoResp
    /\ calls \in [Calls -> { Received(u, id, a, t) :
                                u \in SessionUserIds, id \in QuestionIds,
                                a \in Answers, t \in TimesTaken }]
    /\ writer = <<>>
    /\ ClientMounted

NextConc ==
    \E i \in Calls :
        \/ CallStart(i)
        \/ CallGetQuestion(i)
        \/ CallLogLearningEvent(i)
        \/ CallUpdateMastery(i)
        \/ CallGetMastery(i)

\* the storage calls return, and the event loop runs every continuation
SpecConc == InitConc /\ [][NextConc]_vars /\ WF_vars(NextConc)

\* ------------------------------------------------- one mounted GameEngine
InitClient ==
    /\ probe = NoProbe
    /\ questions = SampleQuestions
    /\ mastery = <<>>
    /\ events = <<>>
    /\ req = NoReq
    /\ resp = NoResp
    /\ calls = NoCalls
    /\ writer = <<>>
    /\ ClientMounted

NextClient ==
    \/ AnswerClick
    \/ SubmitResponse
    \/ ContinueClick
    \/ GameTick
    \/ FetchSettled
    \/ FetchFailed

SpecClient == InitClient /\ [][NextClient]_vars

\* the interval keeps firing while the phase is game
SpecClientFair == SpecClient /\ WF_vars(GameTick)

\* ================================================================== claims
TopicQuestions(topicId) ==
    { questions[i] : i \in { j \in DOMAIN questions : questions[j].topicId = topicId } }

IsNext == req.op = "getNextQuestion"
IsSubmit == req.op = "submitAnswer"

\* C1: for an authenticated student getNextQuestion answers 200 exactly when
\* the topic has a question, the question it returns is a row of the
\* requested topic, and a topic without questions is answered 404 without a
\* body; whatever the stored mastery and the random index.
C1_NextQuestionFound ==
    (IsNext /\ req.userId # 0) =>
        LET has == TopicQuestions(req.topicId) # {}
        IN  /\ (resp.status = 200) <=> has
            /\ has => /\ resp.body.kind = "question"
                      /\ resp.body.question \in TopicQuestions(req.topicId)
            /\ ~has => resp = [status |-> 404, body |-> NoBody]

\* a topic whose only questions miss the target of a stored mastery of 1.0
C1_Witness ==
    /\ IsNext /\ req.userId # 0 /\ resp.status = 200
    /\ <<req.userId, req.topicId>> \in DOMAIN mastery
    /\ mastery[<<req.userId, req.topicId>>] = Scale
    /\ resp.body.question.difficulty < 5
    /\ \E t \in Topics : TopicQuestions(t) = {}

\* C3: the target difficulty d of a score m in [0,1] (0 for an absent record)
\* is floor(5m)+1 cut to 1..5: d is in 1..5, d-1 <= 5m, and 5m < d unless
\* d = 5; it does not decrease when m grows; it is 1 at m = 0 and for an
\* absent record, and 5 at m = 0.99 and at m = 1.0.
C3_TargetDifficulty ==
    probe.done =>
        LET s1 == IF probe.m1 = None THEN 0 ELSE The(probe.m1).score
            s2 == IF probe.m2 = None THEN 0 ELSE The(probe.m2).score
            d == probe.d1
        IN  /\ d \in 1..5
            /\ (d - 1) * Scale <= 5 * s1
            /\ d < 5 => 5 * s1 < d * Scale
            /\ s1 <= s2 => d <= probe.d2
            /\ s1 = 0 => d = 1
            /\ 100 * s1 = 99 * Scale => d = 5
            /\ s1 = Scale => d = 5

\* the score 1.0, where floor(5m)+1 is 6, against the score 0.99
C3_Witness ==
    /\ probe.done
    /\ probe.m1 = Some([score |-> Scale]) /\ probe.d1 = 5
    /\ probe.m2 = Some([score |-> (99 * Scale) \div 100]) /\ probe.d2 = 5

\* the row of the question a submission names, and that submission's verdict
ReqQuestion == questions[req.questionId]
ReqCorrect == req.answer = ReqQuestion.correctAnswer
Answered == IsSubmit /\ resp.status = 200

\* the events of a student for the questions of a topic, oldest first
EventsOf(u, t) ==
    SelectSeq(events, LAMBDA e : e.userId = u /\ questions[e.questionId].topicId = t)

\* C2: after a submitAnswer that completes for an existing question, the
\* stored mastery of (student, the question's topic) is 1.0 if the answer was
\* correct and 0.0 if not, whatever was stored before; so after any
\* sequence of answers the mastery of a topic is that of its latest answer.
C2_MasterySnapsToLastAnswer ==
    /\ Answered =>
          /\ <<req.userId, ReqQuestion.topicId>> \in DOMAIN mastery
          /\ mastery[<<req.userId, ReqQuestion.topicId>>]
                = (IF ReqCorrect THEN Scale ELSE 0)
    /\ \A u \in Students, t \in QuestionTopics :
          LET es == EventsOf(u, t)
          IN  Len(es) > 0 =>
                /\ <<u, t>> \in DOMAIN mastery
                /\ mastery[<<u, t>>] = (IF es[Len(es)].correct THEN Scale ELSE 0)

\* a correct answer and then an incorrect one for the same topic
C2_Witness ==
    /\ Answered /\ ~ReqCorrect
    /\ Len(events) = 2
    /\ events[1].correct /\ events[1].userId = req.userId
    /\ questions[events[1].questionId].topicId = ReqQuestion.topicId
    /\ mastery[<<req.userId, ReqQuestion.topicId>>] = 0

\* C6: a submitAnswer that passes its guards appends exactly one event, the
\* one of this submission, and writes exactly the mastery row of (student,
\* topic); nothing is deduplicated, and no step changes or removes an event
\* already in the log.
C6_OneEventPerCall ==
    [][ /\ Len(events') >= Len(events)
        /\ SubSeq(events', 1, Len(events)) = events
        /\ (IsSubmit' /\ resp'.status = 200) =>
              LET q == questions[req'.questionId]
                  key == <<req'.userId, q.topicId>>
              IN  /\ events' = Append(events,
                        [userId |-> req'.userId, questionId |-> req'.questionId,
                         correct |-> (req'.answer = q.correctAnswer),
                         timeTaken |-> req'.timeTaken])
                  /\ DOMAIN mastery' = (DOMAIN mastery) \cup {key}
                  /\ \A k \in DOMAIN mastery : k # key => mastery'[k] = mastery[k]
        /\ ~(IsSubmit' /\ resp'.status = 200) => events' = events /\ mastery' = mastery
      ]_vars

\* the same student submitted the same answer to the same question twice
C6_Witness ==
    /\ Answered
    /\ Len(events) = 2
    /\ events[1] = events[2]

\* C7 as stated: correct is string equality with the correct answer, coins
\* are 10 or 0, and the feedback of an incorrect answer is the explanation
\* whenever the question has one.
C7_FeedbackIsExplanationUnlessAbsent ==
    Answered =>
        /\ resp.body.correct = ReqCorrect
        /\ resp.body.coinsEarned = (IF ReqCorrect THEN 10 ELSE 0)
        /\ resp.body.correctAnswer = ReqQuestion.correctAnswer
        /\ resp.body.feedback =
              (IF ReqCorrect THEN "Great job!"
               ELSE IF ReqQuestion.explanation = None THEN "Keep trying!"
               ELSE The(ReqQuestion.explanation))

\* C7, amended: correct is true exactly when the answer is the same string
\* as the question's correct answer (case matters); coinsEarned is 10 when
\* correct and 0 otherwise; correctAnswer is the question's; feedback is
\* "Great job!" when correct, and when incorrect the explanation if it is a
\* non-empty string, "Keep trying!" if it is absent or empty.
C7_Outcome ==
    Answered =>
        /\ resp.body.correct = ReqCorrect
        /\ resp.body.coinsEarned = (IF ReqCorrect THEN 10 ELSE 0)
        /\ resp.body.correctAnswer = ReqQuestion.correctAnswer
        /\ resp.body.feedback =
              (IF ReqCorrect THEN "Great job!"
               ELSE IF ReqQuestion.explanation = None
                       \/ ReqQuestion.explanation = Some("")
                    THEN "Keep trying!"
               ELSE The(ReqQuestion.explanation))

\* an answer that differs from the correct one only in case, for a question
\* that has an explanation
C7_Witness ==
    /\ Answered
    /\ ReqQuestion.correctAnswer = "A" /\ req.answer = "a"
    /\ resp.body.feedback = "E"
    /\ resp.body.coinsEarned = 0

\* C4 as stated: for the question now presented at most one submitAnswer
\* call has been sent and questionsAnswered has grown by at most one.
C4_AnsweredAtMostOnce ==
    /\ sentFor <= 1
    /\ answeredFor <= 1

\* C5: handleContinue goes to game exactly when questionsAnswered is a
\* positive multiple of 3 and to loading otherwise; the n-th continue of a
\* session follows the n-th answered question, so the 3rd and the 6th go to
\* game and the others to loading; loading is left only for question, when
\* the fetch settles.
C5_EveryThirdContinue ==
    [][ /\ (lastEvent' = "continueClick" /\ ContinueButtonShown) =>
              /\ continues' = continues + 1
              /\ questionsAnswered = continues'
              /\ phase' = (IF questionsAnswered % 3 = 0 /\ questionsAnswered > 0
                           THEN "game" ELSE "loading")
              /\ (phase' = "game") <=> (continues' \in {3, 6})
        /\ phase = "loading" => phase' \in {"loading", "question"}
        /\ (phase = "loading" /\ lastEvent' = "fetchSettled") => phase' = "question"
      ]_vars

\* the 6th continue has gone to game
C5_Witness ==
    /\ continues = 6
    /\ questionsAnswered = 6
    /\ phase = "game"
    /\ lastEvent = "continueClick"

\* C8 as stated: no step takes score or streak back to 0.
C8_NeverReset ==
    [][ /\ score > 0 => score' > 0
        /\ streak > 0 => streak' > 0 ]_vars

\* C8, amended: no step of a mounted session resets or lowers score, which
\* grows only with a correct answer; streak changes only when the response
\* to an answer arrives, by one up if the answer was correct and to 0 if it
\* was not; continue, ticks and fetch completion change neither.
C8_ScoreKeptStreakResetByIncorrect ==
    [][ /\ score' >= score
        /\ score' > score => (lastEvent' = "submitSuccess" /\ The(result').correct)
        /\ streak' # streak =>
              /\ lastEvent' = "submitSuccess"
              /\ streak' = (IF The(result').correct THEN streak + 1 ELSE 0)
      ]_vars

\* an incorrect answer has reset a streak of two and kept the score
C8_Witness ==
    /\ lastEvent = "submitSuccess"
    /\ ~The(result).correct
    /\ streak = 0
    /\ score = 22

\* C10 as stated: the 50th tick of a game resets gameProgress and leaves
\* for question.
C10_ResetOnFiftiethTick ==
    gameTicks = 50 => (phase = "question" /\ gameProgress = 0)

\* C10, amended: from gameProgress 0 each tick adds 2, so 50 ticks bring it
\* to 100; the next tick, the 51st, one period after GAME_DURATION, finds it
\* at 100, resets it to 0, sets the phase to question and calls refetch
\* once; while the interval keeps firing the game phase ends.
C10_GameEndsOnTickAfterFull ==
    /\ [](phase = "game" => (gameProgress = 2 * gameTicks /\ gameTicks <= 50))
    /\ [][ (phase = "game" /\ gameTicks' = gameTicks + 1) =>
              IF gameProgress < 100
              THEN /\ gameProgress' = gameProgress + 2
                   /\ phase' = "game"
                   /\ refetchCalls' = refetchCalls
              ELSE /\ gameTicks' = 51
                   /\ gameTicks' * TickMs = GAME_DURATION + TickMs
                   /\ gameProgress' = 0
                   /\ phase' = "question"
                   /\ refetchCalls' = refetchCalls + 1
                   /\ fetching'
          ]_vars
    /\ (phase = "game") ~> (phase = "question")

\* the 51st tick has ended a game
C10_Witness ==
    /\ lastEvent = "tick"
    /\ gameTicks = 51
    /\ phase = "question"
    /\ gameProgress = 0
    /\ fetching

\* C9: when the topic has a question at the target difficulty d, the
\* question returned has difficulty d; when it has none, every question of
\* the topic is a possible response.
C9_TargetOrFallback ==
    /\ (IsNext /\ resp.status = 200) =>
          LET d == targetDifficulty(
                     currentScoreOf(getMastery(mastery, req.userId, req.topicId)))
          IN  (\E q \in TopicQuestions(req.topicId) : q.difficulty = d)
                  => resp.body.question.difficulty = d
    /\ \A u \in Students, t \in Topics :
          LET d == targetDifficulty(currentScoreOf(getMastery(mastery, u, t)))
          IN  (\A q \in TopicQuestions(t) : q.difficulty # d) =>
                  \A q \in TopicQuestions(t) :
                      [status |-> 200, body |-> [kind |-> "question", question |-> q]]
                          \in nextQuestionResponses(questions, mastery, u, t)

\* two questions of one topic, one at the target and one below it
C9_Witness ==
    /\ IsNext /\ resp.status = 200
    /\ <<req.userId, req.topicId>> \in DOMAIN mastery
    /\ resp.body.question.difficulty = 3
    /\ \E q \in TopicQuestions(req.topicId) : q.difficulty < 3

\* C11: the phase becomes loading only by a continue taken in result, which
\* starts one fetch with a then() waiting for it; loading is left only for
\* question, by the step that settles that fetch, and that step always
\* leaves it; while the fetch has not settled the phase stays loading, and
\* once the fetch has failed the phase is loading for ever.
C11_LoadingLeftOnlyByFetchSettled ==
    /\ [](phase = "loading" =>
            (continues > 0 /\ result = None /\ (fetching <=> thenPending)))
    /\ [][ /\ (phase # "loading" /\ phase' = "loading") =>
                 /\ phase = "result"
                 /\ lastEvent' = "continueClick"
                 /\ fetching' /\ thenPending'
                 /\ refetchCalls' = refetchCalls + 1
           /\ (phase = "loading" /\ phase' # "loading") =>
                 /\ phase' = "question"
                 /\ lastEvent' = "fetchSettled"
                 /\ fetching /\ ~fetching'
           /\ (phase = "loading" /\ fetching /\ ~fetching') =>
                 phase' = (IF lastEvent' = "fetchSettled" THEN "question" ELSE "loading")
           /\ (phase = "loading" /\ ~fetching) => (phase' = "loading" /\ ~fetching')
         ]_vars

\* the second loading of a session, its fetch failed, a click made since
C11_Witness ==
    /\ phase = "loading"
    /\ ~fetching
    /\ continues = 2
    /\ question = 2
    /\ lastEvent = "continueClick"

\* C12: while the phase is game a click on an option or on continue leaves
\* phase, gameProgress, questionsAnswered, score and streak as they are, no
\* response of submitAnswer changes them either, and the phase leaves game
\* only by a tick of the interval, the one that finds gameProgress at 100.
C12_GameIgnoresInput ==
    [][ /\ (phase = "game" /\ lastEvent' \in {"answerClick", "continueClick",
                                               "submitDropped", "submitSuccess"}) =>
                UNCHANGED <<phase, gameProgress, questionsAnswered, score, streak>>
        /\ (phase = "game" /\ phase' # "game") =>
                (lastEvent' = "tick" /\ gameProgress = 100)
        /\ (phase = "game" /\ gameProgress' # gameProgress) => lastEvent' = "tick"
      ]_vars

\* a click on continue in the middle of a game
C12_Witness ==
    /\ phase = "game"
    /\ gameProgress = 50
    /\ gameTicks = 25
    /\ lastEvent = "continueClick"

\* C16: gameProgress is an even integer of 0..100, and it is 0 whenever the
\* phase is not game, in every reachable state of the client.
C16_GameProgressEvenAndZeroOutsideGame ==
    /\ gameProgress \in 0..100
    /\ gameProgress % 2 = 0
    /\ phase # "game" => gameProgress = 0

\* a game at full progress, one tick before its end
C16_Witness ==
    /\ phase = "game"
    /\ gameProgress = 100
    /\ questionsAnswered = 3

\* C14: a submitAnswer without a session is answered 401 and one for an
\* unknown question id 404, each without an outcome and with the questions,
\* the mastery records and the event log left as they were; a getNextQuestion
\* that is not answered 200 is answered 401 or 404 and changes none of them.
C14_FailedRequestChangesNothing ==
    [][ /\ (req'.op = "submitAnswer" /\ req'.userId = 0) => resp'.status = 401
        /\ (req'.op = "submitAnswer" /\ req'.userId # 0
                /\ req'.questionId \notin DOMAIN questions) => resp'.status = 404
        /\ (req'.op = "getNextQuestion" /\ resp'.status # 200) =>
                resp'.status \in {401, 404}
        /\ resp'.status \in {401, 404} =>
                /\ resp'.body = NoBody
                /\ UNCHANGED <<questions, mastery, events>>
      ]_vars

\* an unknown question id after an answered submission
C14_Witness ==
    /\ IsSubmit
    /\ req.userId = 1
    /\ resp.status = 404
    /\ Len(events) = 1
    /\ \E t \in QuestionTopics : <<1, t>> \in DOMAIN mastery

CallKey(i) == <<calls[i].userId, The(calls[i].found).topicId>>
CallCorrect(i) == isCorrectOf(The(calls[i].found), calls[i].answer)
CallScore(i) == IF CallCorrect(i) THEN Scale ELSE 0
Accepted(i) == calls[i].found # None
AllDone == \A i \in Calls : calls[i].pc = "done"

\* C13: with the storage calls of the requests interleaved in any order,
\* every request completes; each request that has passed logLearningEvent
\* has its own event in the log and the log holds no other event; and the
\* score stored for a (student, topic) is the one written by the call whose
\* updateMastery ran last for it.
C13_BothLoggedLastWriteWins ==
    /\ <>[]AllDone
    /\ [](\A i \in Calls :
            calls[i].pc \in {"updateMastery", "getMastery", "done"} /\ Accepted(i) =>
                /\ calls[i].eventIdx \in 1..Len(events)
                /\ events[calls[i].eventIdx] =
                      [userId |-> calls[i].userId, questionId |-> calls[i].questionId,
                       correct |-> CallCorrect(i), timeTaken |-> calls[i].timeTaken]
                /\ \A j \in Calls \ {i} :
                      (Accepted(j) /\ calls[j].eventIdx # 0) =>
                          calls[j].eventIdx # calls[i].eventIdx)
    /\ [](Len(events) = Cardinality({ i \in Calls : Accepted(i) /\ calls[i].eventIdx # 0 }))
    /\ [](/\ DOMAIN mastery = DOMAIN writer
          /\ \A k \in DOMAIN writer :
                /\ CallKey(writer[k]) = k
                /\ mastery[k] = CallScore(writer[k]))
    /\ [](AllDone => \A i \in Calls :
            calls[i].resp.status = (IF calls[i].userId = 0 THEN 401
                                    ELSE IF Accepted(i) THEN 200 ELSE 404))

\* both requests answered for one (student, topic), the first to log being
\* the last to write, and the two writes differing
C13_Witness ==
    /\ AllDone
    /\ Accepted(1) /\ Accepted(2)
    /\ CallKey(1) = CallKey(2)
    /\ CallCorrect(1) /\ ~CallCorrect(2)
    /\ calls[1].eventIdx = 1
    /\ writer[CallKey(1)] = 1
    /\ mastery[CallKey(1)] = Scale

\* C15 as stated: newMastery of an outcome is 1.0 when its correct flag is
\* true and 0.0 when it is false.
C15_NewMasteryAgreesWithCorrect ==
    \A i \in Calls :
        calls[i].resp.status = 200 =>
            calls[i].resp.body.newMastery =
                (IF calls[i].resp.body.correct THEN Scale ELSE 0)

\* C15, amended: newMastery of an outcome is the score stored for the
\* (student, topic) when the call reads it back, which is 1.0 or 0.0 after
\* the correct flag of the call whose updateMastery ran last before that
\* read; it agrees with the call's own correct flag when no other call has
\* written the score between this call's write and its read.
C15_NewMasteryIsLastWrite ==
    \A i \in Calls :
        calls[i].resp.status = 200 =>
            /\ calls[i].readFrom \in Calls
            /\ CallKey(calls[i].readFrom) = CallKey(i)
            /\ calls[i].resp.body.correct = CallCorrect(i)
            /\ calls[i].resp.body.newMastery = CallScore(calls[i].readFrom)
            /\ calls[i].readFrom = i =>
                  calls[i].resp.body.newMastery =
                      (IF calls[i].resp.body.correct THEN Scale ELSE 0)

\* a correct answer answered with newMastery 0.0, read from the other call
C15_Witness ==
    /\ calls[1].resp.status = 200
    /\ calls[1].resp.body.correct
    /\ calls[1].resp.body.newMastery = 0
    /\ calls[1].readFrom = 2

====
